---- MODULE Spec2Model ----
(***************************************************************************)
(* The sentinel-image route of the wildfire-detection app                  *)
(* (app/api/sentinel-image/route.ts, kept here as src/unnamed/part_002):   *)
(* POST normalises a bounding box, exchanges client credentials for a      *)
(* token, asks the imagery provider for a true-colour PNG, allocates the   *)
(* next true-color-<n>.png name in public/sentinel and writes the file.    *)
(*                                                                         *)
(* Strings the code inspects (file names, coordinate strings, data URIs)   *)
(* are sequences of one-character strings; strings the code only passes    *)
(* on (error messages, tokens) are TLA+ strings.                           *)
(***************************************************************************)
EXTENDS Integers, Sequences, FiniteSets, TLC

\* ------------------------------------------------------------------ bounds

\* Number of fetch-image requests a behaviour holds (each may overlap the others).
MaxReq == 2

\* ----------------------------------------------------------------- strings

Digits == <<"0", "1", "2", "3", "4", "5", "6", "7", "8", "9">>

IsDigit(c) == \E i \in 1..10 : Digits[i] = c

DigitVal(c) == (CHOOSE i \in 1..10 : Digits[i] = c) - 1

HexLetters == <<"a", "b", "c", "d", "e", "f">>

IsHexDigit(c) == IsDigit(c) \/ \E i \in 1..6 : HexLetters[i] = c

HexVal(c) == IF IsDigit(c) THEN DigitVal(c)
             ELSE 9 + (CHOOSE i \in 1..6 : HexLetters[i] = c)

\* String.prototype.startsWith / endsWith.
startsWith(s, p) == Len(s) >= Len(p) /\ SubSeq(s, 1, Len(p)) = p

endsWith(s, p) == Len(s) >= Len(p) /\ SubSeq(s, Len(s) - Len(p) + 1, Len(s)) = p

\* String.prototype.indexOf, 1-based; 0 when p does not occur in s.
indexOf(s, p) ==
  LET hits == {i \in 1..(Len(s) - Len(p) + 1) : SubSeq(s, i, i + Len(p) - 1) = p}
  IN  IF hits = {} THEN 0 ELSE CHOOSE i \in hits : \A j \in hits : i <= j

\* String.prototype.replace with a string pattern: the first occurrence only.
replace(s, p, t) ==
  LET i == indexOf(s, p)
  IN  IF i = 0 THEN s
      ELSE SubSeq(s, 1, i - 1) \o t \o SubSeq(s, i + Len(p), Len(s))

\* Leading white space removed (StrWhiteSpaceChar: the space is the one modelled).
RECURSIVE trimStart(_)
trimStart(s) == IF s # <<>> /\ Head(s) = " " THEN trimStart(Tail(s)) ELSE s

RECURSIVE trimEnd(_)
trimEnd(s) == IF s # <<>> /\ s[Len(s)] = " " THEN trimEnd(SubSeq(s, 1, Len(s) - 1)) ELSE s

\* ----------------------------------------------------------------- numbers

\* A JavaScript Number: an integer, or NaN (v is 0 then).
NaN == [nan |-> TRUE, v |-> 0]

Num(n) == [nan |-> FALSE, v |-> n]

isNaN(x) == x.nan

\* The value of the longest prefix of s made of digits of the radix, read after acc.
RECURSIVE parseDigits(_, _, _)
parseDigits(s, radix, acc) ==
  IF s = <<>> THEN acc
  ELSE IF radix = 10 /\ IsDigit(Head(s)) THEN parseDigits(Tail(s), radix, 10 * acc + DigitVal(Head(s)))
  ELSE IF radix = 16 /\ IsHexDigit(Head(s)) THEN parseDigits(Tail(s), radix, 16 * acc + HexVal(Head(s)))
  ELSE acc

\* parseInt(string) without a radix: leading white space skipped, an optional sign,
\* a 0x prefix selects radix 16, then the longest prefix of digits; NaN when that
\* prefix is empty. What follows the digits is ignored.
parseInt(str) ==
  LET s0    == trimStart(str)
      neg   == s0 # <<>> /\ Head(s0) = "-"
      s1    == IF s0 # <<>> /\ Head(s0) \in {"-", "+"} THEN Tail(s0) ELSE s0
      hex   == Len(s1) >= 2 /\ s1[1] = "0" /\ s1[2] = "x"
      radix == IF hex THEN 16 ELSE 10
      s2    == IF hex THEN SubSeq(s1, 3, Len(s1)) ELSE s1
      ok    == s2 # <<>> /\ (IF hex THEN IsHexDigit(Head(s2)) ELSE IsDigit(Head(s2)))
      mag   == parseDigits(s2, radix, 0)
  IN  IF ok THEN Num(IF neg THEN -mag ELSE mag) ELSE NaN

\* Number -> String for an integer (the `${next}` of a template literal).
RECURSIVE natToString(_)
natToString(n) == IF n < 10 THEN <<Digits[n + 1]>>
                  ELSE natToString(n \div 10) \o <<Digits[(n % 10) + 1]>>

numberToString(x) == IF x.nan THEN <<"N", "a", "N">>
                     ELSE IF x.v < 0 THEN <<"-">> \o natToString(-x.v)
                     ELSE natToString(x.v)

\* ToNumber of a string (StringToNumber): white space trimmed on both sides, the
\* empty string is 0, an optionally signed run of decimal digits is its value and
\* anything else is NaN. (Fractions, exponents, 0x and Infinity literals are not
\* among the strings the model submits.)
stringToNumber(str) ==
  LET s  == trimEnd(trimStart(str))
      s1 == IF s # <<>> /\ Head(s) \in {"-", "+"} THEN Tail(s) ELSE s
  IN  IF s = <<>> THEN Num(0)
      ELSE IF s1 # <<>> /\ \A i \in 1..Len(s1) : IsDigit(s1[i])
        THEN Num(IF Head(s) = "-" THEN -parseDigits(s1, 10, 0) ELSE parseDigits(s1, 10, 0))
      ELSE NaN

\* A JSON value of the request body, as destructuring hands it to POST: a string,
\* a number, null, or undefined for a key the body does not hold.
JStr(s) == [k |-> "string", s |-> s, n |-> 0]

JNum(n) == [k |-> "number", s |-> <<>>, n |-> n]

JNull == [k |-> "null", s |-> <<>>, n |-> 0]

JUndefined == [k |-> "undefined", s |-> <<>>, n |-> 0]

\* ToNumber, the coercion Math.min and Math.max apply to each argument.
ToNumber(j) ==
  CASE j.k = "number"    -> Num(j.n)
    [] j.k = "string"    -> stringToNumber(j.s)
    [] j.k = "null"      -> Num(0)
    [] j.k = "undefined" -> NaN

\* Math.min / Math.max of two arguments: NaN if either coerces to NaN.
MathMin(a, b) ==
  LET x == ToNumber(a)
      y == ToNumber(b)
  IN  IF x.nan \/ y.nan THEN NaN ELSE IF x.v <= y.v THEN x ELSE y

MathMax(a, b) ==
  LET x == ToNumber(a)
      y == ToNumber(b)
  IN  IF x.nan \/ y.nan THEN NaN ELSE IF x.v >= y.v THEN x ELSE y

\* computeBbox without the normalisation: the points taken in the order given.
computeBbox_asGiven(b) ==
  <<ToNumber(b.lon1), ToNumber(b.lat1), ToNumber(b.lon2), ToNumber(b.lat2)>>

\* computeBbox with the axes exchanged: [minLat, minLon, maxLat, maxLon].
computeBbox_latFirst(b) ==
  <<MathMin(b.lat1, b.lat2), MathMin(b.lon1, b.lon2),
    MathMax(b.lat1, b.lat2), MathMax(b.lon1, b.lon2)>>

\* POST, lines 48-52: bbox = [minLon, minLat, maxLon, maxLat].
computeBbox(b) ==
  LET minLat == MathMin(b.lat1, b.lat2)
      maxLat == MathMax(b.lat1, b.lat2)
      minLon == MathMin(b.lon1, b.lon2)
      maxLon == MathMax(b.lon1, b.lon2)
  IN  <<minLon, minLat, maxLon, maxLat>>

\* ------------------------------------------------------------------ base64

\* The base64 alphabet; "=" pads.
B64 == <<"A", "B", "C", "D", "E", "F", "G", "H", "I", "J", "K", "L", "M", "N", "O", "P",
         "Q", "R", "S", "T", "U", "V", "W", "X", "Y", "Z", "a", "b", "c", "d", "e", "f",
         "g", "h", "i", "j", "k", "l", "m", "n", "o", "p", "q", "r", "s", "t", "u", "v",
         "w", "x", "y", "z", "0", "1", "2", "3", "4", "5", "6", "7", "8", "9", "+", "/">>

B64Char(i) == B64[i + 1]

IsB64Char(c) == \E i \in 1..64 : B64[i] = c

B64Val(c) == (CHOOSE i \in 1..64 : B64[i] = c) - 1

\* Buffer.from(buf).toString("base64"): three bytes make four characters.
RECURSIVE toBase64(_)
toBase64(b) ==
  IF b = <<>> THEN <<>>
  ELSE IF Len(b) = 1
    THEN <<B64Char(b[1] \div 4), B64Char((b[1] % 4) * 16), "=", "=">>
  ELSE IF Len(b) = 2
    THEN <<B64Char(b[1] \div 4), B64Char((b[1] % 4) * 16 + b[2] \div 16),
           B64Char((b[2] % 16) * 4), "=">>
  ELSE <<B64Char(b[1] \div 4), B64Char((b[1] % 4) * 16 + b[2] \div 16),
         B64Char((b[2] % 16) * 4 + b[3] \div 64), B64Char(b[3] % 64)>>
       \o toBase64(SubSeq(b, 4, Len(b)))

\* The characters of s before the first "=".
RECURSIVE b64Payload(_)
b64Payload(s) == IF s = <<>> \/ Head(s) = "=" THEN <<>>
                 ELSE (IF IsB64Char(Head(s)) THEN <<Head(s)>> ELSE <<>>) \o b64Payload(Tail(s))

RECURSIVE b64Bytes(_)
b64Bytes(c) ==
  IF Len(c) < 2 THEN <<>>
  ELSE IF Len(c) = 2
    THEN <<B64Val(c[1]) * 4 + B64Val(c[2]) \div 16>>
  ELSE IF Len(c) = 3
    THEN <<B64Val(c[1]) * 4 + B64Val(c[2]) \div 16,
           (B64Val(c[2]) % 16) * 16 + B64Val(c[3]) \div 4>>
  ELSE <<B64Val(c[1]) * 4 + B64Val(c[2]) \div 16,
         (B64Val(c[2]) % 16) * 16 + B64Val(c[3]) \div 4,
         (B64Val(c[3]) % 4) * 64 + B64Val(c[4])>>
       \o b64Bytes(SubSeq(c, 5, Len(c)))

\* Buffer.from(text, "base64"): characters outside the alphabet are skipped and
\* decoding stops at the padding.
fromBase64(s) == b64Bytes(b64Payload(s))

DataUriHead == <<"d", "a", "t", "a", ":", "i", "m", "a", "g", "e", "/", "p", "n", "g",
                 ";", "b", "a", "s", "e", "6", "4", ",">>

\* fetchImage, line 117: `data:image/png;base64,${...}`.
dataUri(buf) == DataUriHead \o toBase64(buf)

\* String.prototype.split(sep) for a one-character separator.
RECURSIVE split(_, _)
split(s, sep) ==
  LET i == indexOf(s, <<sep>>)
  IN  IF i = 0 THEN <<s>>
      ELSE <<SubSeq(s, 1, i - 1)>> \o split(SubSeq(s, i + 1, Len(s)), sep)

\* downloadImage, line 31: Buffer.from(imageBase64.split(",")[1], "base64").
decodeDataUri(imageBase64) == fromBase64(split(imageBase64, ",")[2])

\* ------------------------------------------------------------- file names

PREFIX == <<"t", "r", "u", "e", "-", "c", "o", "l", "o", "r", "-">>

PNG == <<".", "p", "n", "g">>

SENTINEL == <<"/", "s", "e", "n", "t", "i", "n", "e", "l", "/">>

\* The largest element of a non-empty set of integers (Math.max(...numbers)).
MaxOf(S) == CHOOSE m \in S : \A n \in S : n <= m

\* getNextFilename without the + 1: the largest number in use is given again.
getNextFilename_reuse(names) ==
  LET files   == {f \in names : startsWith(f, PREFIX) /\ endsWith(f, PNG)}
      parsed  == {parseInt(replace(replace(f, PREFIX, <<>>), PNG, <<>>)) : f \in files}
      numbers == {x.v : x \in {y \in parsed : ~isNaN(y)}}
      next    == IF numbers # {} THEN MaxOf(numbers) ELSE 1
  IN  PREFIX \o numberToString(Num(next)) \o PNG

\* getNextFilename, lines 18-27, on the names readdirSync returned.
getNextFilename(names) ==
  LET files   == {f \in names : startsWith(f, PREFIX) /\ endsWith(f, PNG)}
      parsed  == {parseInt(replace(replace(f, PREFIX, <<>>), PNG, <<>>)) : f \in files}
      numbers == {x.v : x \in {y \in parsed : ~isNaN(y)}}
      next    == IF numbers # {} THEN MaxOf(numbers) + 1 ELSE 1
  IN  PREFIX \o numberToString(Num(next)) \o PNG

\* ----------------------------------------------------------- environment

Req == 1..MaxReq

\* Coordinate values a caller may put in the body: the page sends the text of its
\* input fields, other callers may send numbers, null, or leave a key out.
S5 == JStr(<<"5">>)

S10 == JStr(<<"1", "0">>)

S15 == JStr(<<"1", "5">>)

S20 == JStr(<<"2", "0">>)

Coords == {S5, S10, S15, S20, JStr(<<"-", "7">>), JStr(<<" ", "8", " ">>), JNum(12),
           JStr(<<"a", "b", "c">>), JStr(<<" ">>), JNull, JUndefined}

MkBody(a, b, c, d) == [json |-> TRUE, lat1 |-> a, lon1 |-> b, lat2 |-> c, lon2 |-> d]

\* A body req.json() rejects (not JSON).
BadBody == [json |-> FALSE, lat1 |-> JUndefined, lon1 |-> JUndefined,
            lat2 |-> JUndefined, lon2 |-> JUndefined]

\* Every body over Coords: the inputs of the bounding-box computation.
AllBodies == {MkBody(a, b, c, d) : a \in Coords, b \in Coords, c \in Coords, d \in Coords}
             \cup {BadBody}

\* The bodies the requests of the pipeline carry.
Bodies == {MkBody(S10, S20, S5, S15),
           MkBody(JStr(<<"a", "b", "c">>), S20, S5, S15),
           BadBody}

\* Answers of the token endpoint. fail: fetch rejected (no response). json: the
\* body parses as JSON. has: the JSON object holds an access_token key.
TokenReply(fail, ok, json, has, tok) ==
  [fail |-> fail, ok |-> ok, json |-> json, has |-> has, access_token |-> tok]

\* The token endpoint issues a token of its own to every exchange.
Tokens == <<"tokenA", "tokenB", "tokenC", "tokenD">>

TokenReplies(r) == {TokenReply(TRUE, FALSE, FALSE, FALSE, ""),
                    TokenReply(FALSE, FALSE, FALSE, FALSE, ""),
                    TokenReply(FALSE, FALSE, TRUE, FALSE, ""),
                    TokenReply(FALSE, TRUE, TRUE, FALSE, ""),
                    TokenReply(FALSE, TRUE, TRUE, TRUE, ""),
                    TokenReply(FALSE, TRUE, TRUE, TRUE, Tokens[r])}

\* Image bytes the provider may return.
Images == {<<137, 80, 78>>, <<71>>}

\* Answers of the process endpoint: fetch rejected, a non-2xx answer with a text
\* body (which may be empty), or a 2xx answer with the image bytes.
ProcessReply(fail, ok, text, bytes) == [fail |-> fail, ok |-> ok, text |-> text, bytes |-> bytes]

ProcessReplies == {ProcessReply(TRUE, FALSE, "", <<>>),
                   ProcessReply(FALSE, FALSE, "{\"error\":\"no data\"}", <<>>),
                   ProcessReply(FALSE, FALSE, "", <<>>)}
                  \cup {ProcessReply(FALSE, TRUE, "", b) : b \in Images}

\* File names of the cache directory before the first request.
Name(n) == PREFIX \o n \o PNG

NotesTxt == <<"n", "o", "t", "e", "s", ".", "t", "x", "t">>

InitialListings == {{},
                    {Name(<<"1">>), Name(<<"3">>), NotesTxt, Name(<<"a", "b", "c">>)},
                    {Name(<<"2">>), Name(<<"7", "x">>)},
                    {Name(<<"-", "5">>), NotesTxt}}

\* Content of a file that was there before the first request.
OldBytes == <<79>>

\* err.message of the errors the handler can catch.
MsgBadJson == "Unexpected token in JSON"

MsgTokenUnreachable == "request to https://services.sentinel-hub.com/oauth/token failed"

MsgTokenBadJson == "invalid json response body at https://services.sentinel-hub.com/oauth/token"

MsgProcessUnreachable == "request to https://services.sentinel-hub.com/api/v1/process failed"

MsgAuth == "Failed to authenticate with SentinelHub"

MsgMkdir == "EACCES: permission denied, mkdir"

MsgOpen == "EACCES: permission denied, open"

MsgNoSpace == "ENOSPC: no space left on device, write"

\* --------------------------------------------------------------- the state

VARIABLES
  dirExists,        \* public/sentinel exists
  files,            \* public/sentinel: file name -> bytes
  files0,           \* the names of public/sentinel before the first request
  pc,               \* per request: where POST stands
  body,             \* per request: the body received
  before,           \* per request in flight: public/sentinel as it was when the
                    \* request arrived
  bbox,             \* per request: POST's bbox
  access_token,     \* per request: POST's access_token
  trueColorBase64,  \* per request: POST's trueColorBase64
  filename,         \* per request: POST's filename
  response,         \* per request: the NextResponse returned
  effects           \* per request: its outbound calls, their answers and its
                    \* changes to the file system, in order

\* The page (Home) open in a browser.
VARIABLES
  result,           \* useState: the answer of the classifier, or null
  isLoading,        \* useState: an analysis is running
  trueColorUrl,     \* useState: the URL of the image fetched, or null
  fetchingImage,    \* useState: a fetch of the image is running
  lat1, lon1,       \* useState: the text of the four input fields
  lat2, lon2,
  fetchCall,        \* the request of the route that serves the fetch in flight (0: none)
  predictLog,       \* the calls to the classifier of the last analysis, and its answers
  alerted           \* the text of the last alert() shown ("": none yet)

\* The route of the carbon-footprint form (app/api/predict/route.ts), one request.
VARIABLES
  carbonPc,         \* where its POST stands: "idle", "calling" (the backend), "done"
  formData,         \* POST's formData
  carbonLog,        \* the call to the Flask backend, then its answer
  carbonResponse    \* the Response returned

routeVars == <<dirExists, files, files0, pc, body, before, bbox, access_token, trueColorBase64,
               filename, response, effects>>

pageVars == <<result, isLoading, trueColorUrl, fetchingImage, lat1, lon1, lat2, lon2,
              fetchCall, predictLog, alerted>>

carbonVars == <<carbonPc, formData, carbonLog, carbonResponse>>

vars == <<routeVars, pageVars, carbonVars>>

fsVars == <<dirExists, files, files0>>

\* A local that holds nothing (yet, or any more).
None == <<>>

NoResponse == [kind |-> "none"]

\* NextResponse.json({ error: err.message }, { status: 500 }), line 135.
ErrorResponse(msg) == [kind |-> "error", status |-> 500, error |-> msg]

\* NextResponse.json({ trueColorUrl, filename, bbox }), lines 127-131.
SuccessResponse(url, name, box) ==
  [kind |-> "success", status |-> 200, trueColorUrl |-> url, filename |-> name, bbox |-> box]

\* The entries of the effects log.
TokenCall == [op |-> "token"]

TokenAnswer(t) == [op |-> "tokenReply", reply |-> t]

ProcessCall(bearer, box) == [op |-> "process", bearer |-> bearer, bbox |-> box]

ProcessAnswer(p) == [op |-> "processReply", reply |-> p]

MkdirOp == [op |-> "mkdir"]

WriteOp(name, bytes) == [op |-> "writeFile", name |-> name, bytes |-> bytes]

Init ==
  /\ \E names \in InitialListings :
       /\ files0 = names
       /\ files = [f \in names |-> OldBytes]
       /\ dirExists \in (IF names = {} THEN BOOLEAN ELSE {TRUE})
  /\ pc = [r \in Req |-> "idle"]
  /\ body = [r \in Req |-> BadBody]
  /\ before = [r \in Req |-> None]
  /\ bbox = [r \in Req |-> None]
  /\ access_token = [r \in Req |-> ""]
  /\ trueColorBase64 = [r \in Req |-> None]
  /\ filename = [r \in Req |-> None]
  /\ response = [r \in Req |-> NoResponse]
  /\ effects = [r \in Req |-> <<>>]
  /\ result = JNull
  /\ isLoading = FALSE
  /\ trueColorUrl = JNull
  /\ fetchingImage = FALSE
  /\ lat1 = <<>> /\ lon1 = <<>> /\ lat2 = <<>> /\ lon2 = <<>>
  /\ fetchCall = 0
  /\ predictLog = <<>>
  /\ alerted = ""
  /\ carbonPc = "idle"
  /\ formData = JUndefined
  /\ carbonLog = <<>>
  /\ carbonResponse = NoResponse

Log(r, entries) == effects' = [effects EXCEPT ![r] = @ \o entries]

\* The handler returns: its locals go.
Return(r, resp) ==
  /\ pc' = [pc EXCEPT ![r] = "done"]
  /\ response' = [response EXCEPT ![r] = resp]
  /\ access_token' = [access_token EXCEPT ![r] = ""]
  /\ trueColorBase64' = [trueColorBase64 EXCEPT ![r] = None]
  /\ filename' = [filename EXCEPT ![r] = None]
  /\ before' = [before EXCEPT ![r] = None]

\* Fail with the fields computed so far left in the response next to the error.
Fail_mixed(r, msg) ==
  Return(r, [kind |-> "error", status |-> 500, error |-> msg, bbox |-> bbox[r]])

\* The catch block, lines 133-136.
Fail(r, msg) == Return(r, ErrorResponse(msg))

\* POST, lines 44-66: the body is read, the bbox computed and the token requested.
PostBegin(r, b) ==
  /\ pc[r] = "idle"
  /\ body' = [body EXCEPT ![r] = b]
  /\ \/ /\ ~b.json
        /\ Fail(r, MsgBadJson)
        /\ UNCHANGED <<bbox, effects>>
     \/ /\ b.json
        /\ bbox' = [bbox EXCEPT ![r] = computeBbox(b)]
        /\ before' = [before EXCEPT ![r] = files]
        /\ Log(r, <<TokenCall>>)
        /\ pc' = [pc EXCEPT ![r] = "token"]
        /\ UNCHANGED <<access_token, trueColorBase64, filename, response>>
  /\ UNCHANGED fsVars

\* PostToken without line 71: the process request is sent whatever the token is.
PostToken_unchecked(r, t) ==
  /\ pc[r] = "token"
  /\ \/ /\ t.fail
        /\ Fail(r, MsgTokenUnreachable)
        /\ Log(r, <<TokenAnswer(t)>>)
     \/ /\ ~t.fail /\ ~t.json
        /\ Fail(r, MsgTokenBadJson)
        /\ Log(r, <<TokenAnswer(t)>>)
     \/ /\ ~t.fail /\ t.json
        /\ access_token' = [access_token EXCEPT ![r] = t.access_token]
        /\ Log(r, <<TokenAnswer(t), ProcessCall(t.access_token, bbox[r])>>)
        /\ pc' = [pc EXCEPT ![r] = "process"]
        /\ UNCHANGED <<trueColorBase64, filename, response, before>>
  /\ UNCHANGED <<body, bbox>>
  /\ UNCHANGED fsVars

\* PostToken with the token kept in a cache of the process: the bearer sent is
\* the token another request holds, when one does.
PostToken_cached(r, t) ==
  /\ pc[r] = "token"
  /\ \/ /\ t.fail
        /\ Fail(r, MsgTokenUnreachable)
        /\ Log(r, <<TokenAnswer(t)>>)
     \/ /\ ~t.fail /\ ~t.json
        /\ Fail(r, MsgTokenBadJson)
        /\ Log(r, <<TokenAnswer(t)>>)
     \/ /\ ~t.fail /\ t.json /\ (~t.has \/ t.access_token = "")
        /\ Fail(r, MsgAuth)
        /\ Log(r, <<TokenAnswer(t)>>)
     \/ /\ ~t.fail /\ t.json /\ t.has /\ t.access_token # ""
        /\ access_token' = [access_token EXCEPT ![r] = t.access_token]
        /\ LET held == {access_token[q] : q \in Req} \ {""}
               bearer == IF held = {} THEN t.access_token ELSE CHOOSE h \in held : TRUE
           IN  Log(r, <<TokenAnswer(t), ProcessCall(bearer, bbox[r])>>)
        /\ pc' = [pc EXCEPT ![r] = "process"]
        /\ UNCHANGED <<trueColorBase64, filename, response, before>>
  /\ UNCHANGED <<body, bbox>>
  /\ UNCHANGED fsVars

\* POST, lines 58-112: the token endpoint answered; without an access_token the
\* handler throws, with one it sends the process request.
PostToken(r, t) ==
  /\ pc[r] = "token"
  /\ \/ /\ t.fail
        /\ Fail(r, MsgTokenUnreachable)
        /\ Log(r, <<TokenAnswer(t)>>)
     \/ /\ ~t.fail /\ ~t.json
        /\ Fail(r, MsgTokenBadJson)
        /\ Log(r, <<TokenAnswer(t)>>)
     \/ /\ ~t.fail /\ t.json /\ (~t.has \/ t.access_token = "")
        /\ Fail(r, MsgAuth)
        /\ Log(r, <<TokenAnswer(t)>>)
     \/ /\ ~t.fail /\ t.json /\ t.has /\ t.access_token # ""
        /\ access_token' = [access_token EXCEPT ![r] = t.access_token]
        /\ Log(r, <<TokenAnswer(t), ProcessCall(t.access_token, bbox[r])>>)
        /\ pc' = [pc EXCEPT ![r] = "process"]
        /\ UNCHANGED <<trueColorBase64, filename, response, before>>
  /\ UNCHANGED <<body, bbox>>
  /\ UNCHANGED fsVars

\* PostImage without line 114: whatever body the answer holds is taken for the image.
PostImage_unchecked(r, p) ==
  /\ pc[r] = "process"
  /\ Log(r, <<ProcessAnswer(p)>>)
  /\ \/ /\ p.fail
        /\ Fail(r, MsgProcessUnreachable)
     \/ /\ ~p.fail
        /\ trueColorBase64' = [trueColorBase64 EXCEPT ![r] = dataUri(p.bytes)]
        /\ pc' = [pc EXCEPT ![r] = "fetched"]
        /\ UNCHANGED <<access_token, filename, response, before>>
  /\ UNCHANGED <<body, bbox>>
  /\ UNCHANGED fsVars

\* PostImage with the provider's body replaced by a message of the route's own.
PostImage_generic(r, p) ==
  /\ pc[r] = "process"
  /\ Log(r, <<ProcessAnswer(p)>>)
  /\ \/ /\ p.fail
        /\ Fail(r, MsgProcessUnreachable)
     \/ /\ ~p.fail /\ ~p.ok
        /\ Fail(r, "Failed to fetch image from SentinelHub")
     \/ /\ ~p.fail /\ p.ok
        /\ trueColorBase64' = [trueColorBase64 EXCEPT ![r] = dataUri(p.bytes)]
        /\ pc' = [pc EXCEPT ![r] = "fetched"]
        /\ UNCHANGED <<access_token, filename, response, before>>
  /\ UNCHANGED <<body, bbox>>
  /\ UNCHANGED fsVars

\* fetchImage, lines 108-117, and line 120: the process endpoint answered.
PostImage(r, p) ==
  /\ pc[r] = "process"
  /\ Log(r, <<ProcessAnswer(p)>>)
  /\ \/ /\ p.fail
        /\ Fail(r, MsgProcessUnreachable)
     \/ /\ ~p.fail /\ ~p.ok
        /\ Fail(r, p.text)
     \/ /\ ~p.fail /\ p.ok
        /\ trueColorBase64' = [trueColorBase64 EXCEPT ![r] = dataUri(p.bytes)]
        /\ pc' = [pc EXCEPT ![r] = "fetched"]
        /\ UNCHANGED <<access_token, filename, response, before>>
  /\ UNCHANGED <<body, bbox>>
  /\ UNCHANGED fsVars

\* PostAllocate with the names other requests hold but have not written yet
\* counted as taken (an in-process reservation).
PostAllocate_reserved(r) ==
  /\ pc[r] = "fetched"
  /\ \/ /\ ~dirExists
        /\ Fail(r, MsgMkdir)
        /\ UNCHANGED <<dirExists, effects>>
     \/ /\ dirExists' = TRUE
        /\ Log(r, IF dirExists THEN <<>> ELSE <<MkdirOp>>)
        /\ filename' = [filename EXCEPT ![r] =
             getNextFilename(DOMAIN files \cup {filename[q] : q \in {x \in Req : pc[x] = "allocated"}})]
        /\ pc' = [pc EXCEPT ![r] = "allocated"]
        /\ UNCHANGED <<access_token, trueColorBase64, response, before>>
  /\ UNCHANGED <<files, files0, body, bbox>>

\* Line 123 and getNextFilename, lines 11-28: the directory is made if it is not
\* there (mkdirSync may throw), then listed, and the next name computed. The
\* handler is suspended at the await of line 123 before it writes (line 125), and
\* the directory is shared by every process serving the route: other requests may
\* take steps between this one and PostWrite.
PostAllocate(r) ==
  /\ pc[r] = "fetched"
  /\ \/ /\ ~dirExists
        /\ Fail(r, MsgMkdir)
        /\ UNCHANGED <<dirExists, effects>>
     \/ /\ dirExists' = TRUE
        /\ Log(r, IF dirExists THEN <<>> ELSE <<MkdirOp>>)
        /\ filename' = [filename EXCEPT ![r] = getNextFilename(DOMAIN files)]
        /\ pc' = [pc EXCEPT ![r] = "allocated"]
        /\ UNCHANGED <<access_token, trueColorBase64, response, before>>
  /\ UNCHANGED <<files, files0, body, bbox>>

\* The file put at name f with the given bytes (writeFileSync creates or truncates).
WriteFile(fs, f, bytes) == [g \in DOMAIN fs \cup {f} |-> IF g = f THEN bytes ELSE fs[g]]

\* Line 125 and downloadImage, lines 30-42: the bytes are decoded and written;
\* writeFileSync may throw before the file is opened, or after it was created or
\* truncated with the disk full. The handler is suspended once more at the await of
\* line 125 before it builds its response.
PostWrite(r) ==
  /\ pc[r] = "allocated"
  /\ \/ /\ files' = WriteFile(files, filename[r], decodeDataUri(trueColorBase64[r]))
        /\ Log(r, <<WriteOp(filename[r], decodeDataUri(trueColorBase64[r]))>>)
        /\ pc' = [pc EXCEPT ![r] = "written"]
        /\ UNCHANGED <<access_token, trueColorBase64, filename, response, before>>
     \/ /\ Fail(r, MsgOpen)
        /\ UNCHANGED <<files, effects>>
     \/ /\ files' = WriteFile(files, filename[r], <<>>)
        /\ Log(r, <<WriteOp(filename[r], <<>>)>>)
        /\ Fail(r, MsgNoSpace)
  /\ dirExists' = TRUE
  /\ UNCHANGED <<files0, body, bbox>>

\* Lines 127-131: the success response is returned.
PostRespond(r) ==
  /\ pc[r] = "written"
  /\ Return(r, SuccessResponse(SENTINEL \o filename[r], filename[r], bbox[r]))
  /\ UNCHANGED <<effects, body, bbox>>
  /\ UNCHANGED fsVars

\* Requests sent to the route by callers other than the page.
Next ==
  \/ \E r \in Req, b \in Bodies : PostBegin(r, b) /\ UNCHANGED <<pageVars, carbonVars>>
  \/ \E r \in Req : \E t \in TokenReplies(r) : PostToken(r, t) /\ UNCHANGED <<pageVars, carbonVars>>
  \/ \E r \in Req, p \in ProcessReplies : PostImage(r, p) /\ UNCHANGED <<pageVars, carbonVars>>
  \/ \E r \in Req : PostAllocate(r) /\ UNCHANGED <<pageVars, carbonVars>>
  \/ \E r \in Req : PostWrite(r) /\ UNCHANGED <<pageVars, carbonVars>>
  \/ \E r \in Req : PostRespond(r) /\ UNCHANGED <<pageVars, carbonVars>>

Spec == Init /\ [][Next]_vars

\* The bounding box alone: one request, its body drawn from every body over Coords.
InitBBox == Init /\ files0 = {} /\ dirExists

NextBBox == \E b \in AllBodies : PostBegin(1, b) /\ UNCHANGED <<pageVars, carbonVars>>

SpecBBox == InitBBox /\ [][NextBBox]_vars

\* ---------------------------------------------------------------- the page

\* A string whose characters the code does not look at.
JText(t) == [k |-> "text", t |-> t]

\* A JSON object: its keys and their values.
JObj(o) == [k |-> "object", o |-> o]

\* The value, as a condition: null, undefined, "" and 0 count as false.
Truthy(v) ==
  CASE v.k = "string" -> v.s # <<>>
    [] v.k = "text"   -> v.t # ""
    [] v.k = "number" -> v.n # 0
    [] v.k = "object" -> TRUE
    [] OTHER          -> FALSE

\* v.f: undefined when the object has no such key.
Get(v, f) == IF v.k = "object" /\ f \in DOMAIN v.o THEN v.o[f] ELSE JUndefined

\* JSON.stringify of a number: NaN becomes null.
NumberJson(x) == IF x.nan THEN JNull ELSE JNum(x.v)

\* The body res.json() gives the page for a response of the route.
ResponseJson(resp) ==
  IF resp.kind = "error"
  THEN JObj([error |-> JText(resp.error)])
  ELSE JObj([trueColorUrl |-> JStr(resp.trueColorUrl),
             filename |-> JStr(resp.filename),
             bbox |-> [i \in 1..4 |-> NumberJson(resp.bbox[i])]])

\* The texts the user types into the four input fields (each field starts empty;
\* the first one is also cleared again).
Lat1Texts == {<<>>, <<"1", "0">>}

Lon1Texts == {<<"2", "0">>}

Lat2Texts == {<<"5">>}

Lon2Texts == {<<"1", "5">>}

\* The object the classifier answers with (WildfireResult); probability and
\* threshold in hundredths.
Verdict(img, prob, pred, label, thr) ==
  JObj([image_used |-> img, checkpoint |-> JText("best_model.pth"),
        probability |-> JNum(prob), prediction |-> JNum(pred),
        label |-> JText(label), threshold |-> JNum(thr)])

\* Answers of the classifier. fail: fetch rejected (no response). ok: a 2xx status.
\* json: the body parses as JSON, and data is what it parses to.
PredictReply(fail, ok, json, data) == [fail |-> fail, ok |-> ok, json |-> json, data |-> data]

PredictReplies(img) ==
  {PredictReply(TRUE, FALSE, FALSE, JUndefined),
   PredictReply(FALSE, FALSE, FALSE, JUndefined),
   PredictReply(FALSE, TRUE, FALSE, JUndefined),
   PredictReply(FALSE, FALSE, TRUE, JObj([error |-> JText("Could not load image")])),
   PredictReply(FALSE, FALSE, TRUE, JObj([message |-> JText("Internal Server Error")])),
   PredictReply(FALSE, TRUE, TRUE, Verdict(img, 92, 1, "Wildfire", 50)),
   PredictReply(FALSE, TRUE, TRUE, Verdict(img, 60, 0, "No Wildfire", 80)),
   PredictReply(FALSE, TRUE, TRUE,
     JObj([error |-> JText(""), image_used |-> img, probability |-> JNum(92),
           prediction |-> JNum(1), label |-> JText("Wildfire"), threshold |-> JNum(50)]))}

\* The texts of the page's own messages.
MsgCoordinates == "Please enter all coordinates!"

MsgFetchFailed == "Failed to fetch satellite image"

MsgPredictFailed == "Failed to connect to prediction server"

\* The entries of predictLog.
PredictCall(url) == [op |-> "predict", image_url |-> url]

PredictAnswer(a) == [op |-> "predictReply", reply |-> a]

\* What the page renders, lines 281, 297 and 323.
ShowsRunButton == Truthy(trueColorUrl)

ShowsVerdictCard == Truthy(result) /\ ~Truthy(Get(result, "error"))

ShowsErrorCard == Truthy(result) /\ Truthy(Get(result, "error"))

\* onChange of the four inputs, lines 238-250.
SetLat1(v) ==
  /\ lat1' = v
  /\ UNCHANGED <<result, isLoading, trueColorUrl, fetchingImage, lon1, lat2, lon2,
                 fetchCall, predictLog, alerted>>
  /\ UNCHANGED routeVars

SetLon1(v) ==
  /\ lon1' = v
  /\ UNCHANGED <<result, isLoading, trueColorUrl, fetchingImage, lat1, lat2, lon2,
                 fetchCall, predictLog, alerted>>
  /\ UNCHANGED routeVars

SetLat2(v) ==
  /\ lat2' = v
  /\ UNCHANGED <<result, isLoading, trueColorUrl, fetchingImage, lat1, lon1, lon2,
                 fetchCall, predictLog, alerted>>
  /\ UNCHANGED routeVars

SetLon2(v) ==
  /\ lon2' = v
  /\ UNCHANGED <<result, isLoading, trueColorUrl, fetchingImage, lat1, lon1, lat2,
                 fetchCall, predictLog, alerted>>
  /\ UNCHANGED routeVars

\* The request of the route that serves the page's next fetch.
IdleReq == {r \in Req : pc[r] = "idle"}

NextReq == CHOOSE r \in IdleReq : \A q \in IdleReq : r <= q

\* fetchSentinelImage without the check of lines 147-150: the four texts are
\* posted as they are.
fetchSentinelImage_unchecked ==
  /\ ~fetchingImage
  /\ IdleReq # {}
  /\ fetchingImage' = TRUE
  /\ trueColorUrl' = JNull
  /\ result' = JNull
  /\ fetchCall' = NextReq
  /\ PostBegin(NextReq, MkBody(JStr(lat1), JStr(lon1), JStr(lat2), JStr(lon2)))
  /\ UNCHANGED alerted
  /\ UNCHANGED <<isLoading, lat1, lon1, lat2, lon2, predictLog>>

\* fetchSentinelImage without line 153: the image of the last fetch stays while
\* the new one is fetched.
fetchSentinelImage_keeping ==
  /\ ~fetchingImage
  /\ \/ /\ lat1 = <<>> \/ lon1 = <<>> \/ lat2 = <<>> \/ lon2 = <<>>
        /\ alerted' = MsgCoordinates
        /\ UNCHANGED <<result, trueColorUrl, fetchingImage, fetchCall>>
        /\ UNCHANGED routeVars
     \/ /\ lat1 # <<>> /\ lon1 # <<>> /\ lat2 # <<>> /\ lon2 # <<>>
        /\ IdleReq # {}
        /\ fetchingImage' = TRUE
        /\ result' = JNull
        /\ fetchCall' = NextReq
        /\ PostBegin(NextReq, MkBody(JStr(lat1), JStr(lon1), JStr(lat2), JStr(lon2)))
        /\ UNCHANGED <<alerted, trueColorUrl>>
  /\ UNCHANGED <<isLoading, lat1, lon1, lat2, lon2, predictLog>>

\* fetchSentinelImage on a button that is not disabled while fetchingImage.
fetchSentinelImage_reentrant ==
  /\ \/ /\ lat1 = <<>> \/ lon1 = <<>> \/ lat2 = <<>> \/ lon2 = <<>>
        /\ alerted' = MsgCoordinates
        /\ UNCHANGED <<result, trueColorUrl, fetchingImage, fetchCall>>
        /\ UNCHANGED routeVars
     \/ /\ lat1 # <<>> /\ lon1 # <<>> /\ lat2 # <<>> /\ lon2 # <<>>
        /\ IdleReq # {}
        /\ fetchingImage' = TRUE
        /\ trueColorUrl' = JNull
        /\ result' = JNull
        /\ fetchCall' = NextReq
        /\ PostBegin(NextReq, MkBody(JStr(lat1), JStr(lon1), JStr(lat2), JStr(lon2)))
        /\ UNCHANGED alerted
  /\ UNCHANGED <<isLoading, lat1, lon1, lat2, lon2, predictLog>>

\* fetchSentinelImage, lines 146-159: a click on the fetch button (disabled while
\* fetchingImage). With a field empty it alerts and returns; otherwise it clears
\* the image and the result and posts the four texts to the route.
fetchSentinelImage ==
  /\ ~fetchingImage
  /\ \/ /\ lat1 = <<>> \/ lon1 = <<>> \/ lat2 = <<>> \/ lon2 = <<>>
        /\ alerted' = MsgCoordinates
        /\ UNCHANGED <<result, trueColorUrl, fetchingImage, fetchCall>>
        /\ UNCHANGED routeVars
     \/ /\ lat1 # <<>> /\ lon1 # <<>> /\ lat2 # <<>> /\ lon2 # <<>>
        /\ IdleReq # {}
        /\ fetchingImage' = TRUE
        /\ trueColorUrl' = JNull
        /\ result' = JNull
        /\ fetchCall' = NextReq
        /\ PostBegin(NextReq, MkBody(JStr(lat1), JStr(lon1), JStr(lat2), JStr(lon2)))
        /\ UNCHANGED alerted
  /\ UNCHANGED <<isLoading, lat1, lon1, lat2, lon2, predictLog>>

\* FetchReturn with the analysis started as soon as the image is there.
FetchReturn_chained ==
  /\ fetchCall # 0
  /\ pc[fetchCall] = "done"
  /\ LET data == ResponseJson(response[fetchCall])
     IN  IF Truthy(Get(data, "error"))
         THEN /\ alerted' = Get(data, "error").t
              /\ UNCHANGED <<trueColorUrl, isLoading, predictLog>>
         ELSE /\ trueColorUrl' = Get(data, "trueColorUrl")
              /\ isLoading' = TRUE
              /\ predictLog' = <<PredictCall(Get(data, "trueColorUrl"))>>
              /\ UNCHANGED alerted
  /\ fetchingImage' = FALSE
  /\ fetchCall' = 0
  /\ UNCHANGED <<result, lat1, lon1, lat2, lon2>>
  /\ UNCHANGED routeVars

\* FetchReturn with the file name stored in place of the URL.
FetchReturn_named ==
  /\ fetchCall # 0
  /\ pc[fetchCall] = "done"
  /\ LET data == ResponseJson(response[fetchCall])
     IN  IF Truthy(Get(data, "error"))
         THEN alerted' = Get(data, "error").t /\ UNCHANGED trueColorUrl
         ELSE trueColorUrl' = Get(data, "filename") /\ UNCHANGED alerted
  /\ fetchingImage' = FALSE
  /\ fetchCall' = 0
  /\ UNCHANGED <<result, isLoading, lat1, lon1, lat2, lon2, predictLog>>
  /\ UNCHANGED routeVars

\* fetchSentinelImage, lines 161-166 and 172-173: the route's response arrived.
FetchReturn ==
  /\ fetchCall # 0
  /\ pc[fetchCall] = "done"
  /\ LET data == ResponseJson(response[fetchCall])
     IN  IF Truthy(Get(data, "error"))
         THEN alerted' = Get(data, "error").t /\ UNCHANGED trueColorUrl
         ELSE trueColorUrl' = Get(data, "trueColorUrl") /\ UNCHANGED alerted
  /\ fetchingImage' = FALSE
  /\ fetchCall' = 0
  /\ UNCHANGED <<result, isLoading, lat1, lon1, lat2, lon2, predictLog>>
  /\ UNCHANGED routeVars

\* fetchSentinelImage, lines 167-173: fetch rejected (the connection to the route
\* failed), which the route itself does not notice.
FetchThrow ==
  /\ fetchCall # 0
  /\ alerted' = MsgFetchFailed
  /\ fetchingImage' = FALSE
  /\ fetchCall' = 0
  /\ UNCHANGED <<result, isLoading, trueColorUrl, lat1, lon1, lat2, lon2, predictLog>>
  /\ UNCHANGED routeVars

\* runWildfireDetection, lines 178-192: a click on the run-analysis button, which is
\* rendered only with an image URL (line 281, and the check of line 179) and
\* disabled while isLoading. It clears the result and posts the URL to the classifier.
runWildfireDetection ==
  /\ ShowsRunButton
  /\ ~isLoading
  /\ isLoading' = TRUE
  /\ result' = JNull
  /\ predictLog' = <<PredictCall(trueColorUrl)>>
  /\ UNCHANGED <<trueColorUrl, fetchingImage, lat1, lon1, lat2, lon2, fetchCall, alerted>>
  /\ UNCHANGED routeVars

\* The analysis in flight: its call has no answer yet.
PredictPending == Len(predictLog) = 1

\* The answers the classifier may give to the call in flight.
PendingReplies == IF PredictPending THEN PredictReplies(predictLog[1].image_url) ELSE {}

\* The label decided on the page, from the probability and a threshold of its own.
Relabel(d) ==
  IF d.k = "object" /\ "probability" \in DOMAIN d.o /\ "label" \in DOMAIN d.o
  THEN JObj([d.o EXCEPT !.label = JText(IF d.o.probability.n >= 50 THEN "Wildfire"
                                                                    ELSE "No Wildfire")])
  ELSE d

\* RunReturn with the answer relabelled on the page.
RunReturn_relabelled(a) ==
  /\ PredictPending
  /\ result' = IF a.fail \/ ~a.json THEN JObj([error |-> JText(MsgPredictFailed)])
                                     ELSE Relabel(a.data)
  /\ isLoading' = FALSE
  /\ predictLog' = Append(predictLog, PredictAnswer(a))
  /\ UNCHANGED <<trueColorUrl, fetchingImage, lat1, lon1, lat2, lon2, fetchCall, alerted>>
  /\ UNCHANGED routeVars

\* RunReturn with the image dropped when the analysis failed.
RunReturn_clearing(a) ==
  /\ PredictPending
  /\ result' = IF a.fail \/ ~a.json THEN JObj([error |-> JText(MsgPredictFailed)])
                                     ELSE a.data
  /\ trueColorUrl' = IF a.fail \/ ~a.json THEN JNull ELSE trueColorUrl
  /\ isLoading' = FALSE
  /\ predictLog' = Append(predictLog, PredictAnswer(a))
  /\ UNCHANGED <<fetchingImage, lat1, lon1, lat2, lon2, fetchCall, alerted>>
  /\ UNCHANGED routeVars

\* RunReturn with the call sent once more when it failed.
RunReturn_retried(a) ==
  /\ PredictPending
  /\ IF a.fail \/ ~a.json
     THEN /\ predictLog' = predictLog \o <<PredictAnswer(a), predictLog[1]>>
          /\ UNCHANGED <<result, isLoading>>
     ELSE /\ result' = a.data
          /\ isLoading' = FALSE
          /\ predictLog' = Append(predictLog, PredictAnswer(a))
  /\ UNCHANGED <<trueColorUrl, fetchingImage, lat1, lon1, lat2, lon2, fetchCall, alerted>>
  /\ UNCHANGED routeVars

\* RunReturn without the finally of lines 200-201 on the path of the catch: a
\* failed call leaves isLoading set.
RunReturn_stuck(a) ==
  /\ PredictPending
  /\ result' = IF a.fail \/ ~a.json THEN JObj([error |-> JText(MsgPredictFailed)])
                                     ELSE a.data
  /\ isLoading' = IF a.fail \/ ~a.json THEN isLoading ELSE FALSE
  /\ predictLog' = Append(predictLog, PredictAnswer(a))
  /\ UNCHANGED <<trueColorUrl, fetchingImage, lat1, lon1, lat2, lon2, fetchCall, alerted>>
  /\ UNCHANGED routeVars

\* runWildfireDetection, lines 194-202: the classifier answered. A body that parses
\* is stored as the result, whatever the status; a rejected fetch or a body that
\* does not parse is caught.
RunReturn(a) ==
  /\ PredictPending
  /\ result' = IF a.fail \/ ~a.json THEN JObj([error |-> JText(MsgPredictFailed)])
                                     ELSE a.data
  /\ isLoading' = FALSE
  /\ predictLog' = Append(predictLog, PredictAnswer(a))
  /\ UNCHANGED <<trueColorUrl, fetchingImage, lat1, lon1, lat2, lon2, fetchCall, alerted>>
  /\ UNCHANGED routeVars

\* handleRecalculate, lines 205-209: a click on Analyze Again, in the verdict card.
handleRecalculate ==
  /\ ShowsVerdictCard
  /\ result' = JNull
  /\ trueColorUrl' = JNull
  /\ UNCHANGED <<isLoading, fetchingImage, lat1, lon1, lat2, lon2, fetchCall, predictLog,
                 alerted>>
  /\ UNCHANGED routeVars

\* The answers the providers give while the page is watched: the token endpoint
\* refuses or issues a token, the process endpoint refuses (with a body or with an
\* empty one) or sends an image.
HomeTokenReplies(r) == {TokenReply(FALSE, TRUE, TRUE, FALSE, ""),
                        TokenReply(FALSE, TRUE, TRUE, TRUE, Tokens[r])}

\* The image the provider has for a request: not the same one for every request.
HomeImage(r) == IF r = 1 THEN <<137, 80, 78>> ELSE <<71>>

HomeProcessReplies(r) == {ProcessReply(FALSE, FALSE, "{\"error\":\"no data\"}", <<>>),
                          ProcessReply(FALSE, FALSE, "", <<>>),
                          ProcessReply(FALSE, TRUE, "", HomeImage(r))}

\* The page and the route: the route serves the requests of the page.
NextHome ==
  \/ \E v \in Lat1Texts : SetLat1(v) /\ UNCHANGED carbonVars
  \/ \E v \in Lon1Texts : SetLon1(v) /\ UNCHANGED carbonVars
  \/ \E v \in Lat2Texts : SetLat2(v) /\ UNCHANGED carbonVars
  \/ \E v \in Lon2Texts : SetLon2(v) /\ UNCHANGED carbonVars
  \/ fetchSentinelImage /\ UNCHANGED carbonVars
  \/ \E r \in Req : \E t \in HomeTokenReplies(r) : PostToken(r, t) /\ UNCHANGED <<pageVars, carbonVars>>
  \/ \E r \in Req : \E p \in HomeProcessReplies(r) : PostImage(r, p) /\ UNCHANGED <<pageVars, carbonVars>>
  \/ \E r \in Req : PostAllocate(r) /\ UNCHANGED <<pageVars, carbonVars>>
  \/ \E r \in Req : PostWrite(r) /\ UNCHANGED <<pageVars, carbonVars>>
  \/ \E r \in Req : PostRespond(r) /\ UNCHANGED <<pageVars, carbonVars>>
  \/ FetchReturn /\ UNCHANGED carbonVars
  \/ FetchThrow /\ UNCHANGED carbonVars
  \/ runWildfireDetection /\ UNCHANGED carbonVars
  \/ \E a \in PendingReplies : RunReturn(a) /\ UNCHANGED carbonVars
  \/ handleRecalculate /\ UNCHANGED carbonVars

InitHome == Init /\ files0 = {} /\ dirExists

SpecHome == InitHome /\ [][NextHome]_vars

\* Where a handler stands while its request is in flight, and the positions it
\* can reach.
InFlight == {"token", "process", "fetched", "allocated", "written"}

Positions == InFlight \cup {"idle", "done"}

\* The handler serving request r moves on: the answer of a provider arrives
\* (PostToken, PostImage), or the handler goes on after the await of line 123
\* or of line 125 (PostAllocate, PostWrite, PostRespond). These are the steps of
\* NextHome that move r from a position in flight, and one of them is possible
\* at every such position.
Advances(r) ==
  /\ pc[r] \in InFlight
  /\ \E v \in Positions \ {pc[r]} : pc' = [pc EXCEPT ![r] = v]

\* Every outbound call is answered or fails in the end, and the event loops of
\* the server and of the browser run the continuation of an await that has
\* settled.
FairHome ==
  /\ \A r \in Req : WF_pc(Advances(r))
  /\ WF_vars(FetchReturn /\ UNCHANGED carbonVars)
  /\ WF_vars(\E a \in PendingReplies : RunReturn(a) /\ UNCHANGED carbonVars)

SpecHomeLive == SpecHome /\ FairHome

\* --------------------------------------------------------- the carbon route

\* A JSON array of strings.
JArr(a) == [k |-> "array", a |-> a]

\* x < n and x > n of JavaScript for a JSON value x and an integer n: x is
\* converted to a number, and a comparison with NaN is false.
LessThan(x, n) == LET y == ToNumber(x) IN ~y.nan /\ y.v < n

GreaterThan(x, n) == LET y == ToNumber(x) IN ~y.nan /\ y.v > n

\* formData.f === "text".
Is(form, f, text) == Get(form, f) = JText(text)

\* generateRecommendations, lines 39-76 (the dash of the last advice is written
\* as a hyphen).
generateRecommendations(form, emissionScore) ==
  LET energy   == IF ~Is(form, "heatingEnergy", "electricity") \/ Is(form, "energyEfficiency", "no")
                  THEN <<"Improve energy efficiency at home (insulation, LED bulbs, etc.)">>
                  ELSE <<>>
      moving   == IF Is(form, "transport", "private")
                     \/ GreaterThan(Get(form, "vehicleMonthlyKm"), 200)
                  THEN <<"Use public transport, cycle, or walk more often">>
                  ELSE <<>>
      air      == IF ~Is(form, "airTravelFrequency", "never")
                     /\ ~Is(form, "airTravelFrequency", "rarely")
                  THEN <<"Limit air travel when possible">>
                  ELSE <<>>
      diet     == IF Is(form, "diet", "omnivore")
                  THEN <<"Consider a more plant-based diet to reduce carbon footprint">>
                  ELSE <<>>
      recycle  == IF Get(form, "recycling").k # "array" \/ Get(form, "recycling").a = <<>>
                  THEN <<"Recycle consistently to reduce waste">>
                  ELSE <<>>
      buying   == IF GreaterThan(Get(form, "wasteBagWeeklyCount"), 3)
                     \/ GreaterThan(Get(form, "newClothesMonthly"), 5)
                  THEN <<"Reduce unnecessary consumption and purchases">>
                  ELSE <<>>
      screens  == IF GreaterThan(Get(form, "tvPcHoursDaily"), 6)
                     \/ GreaterThan(Get(form, "internetHoursDaily"), 8)
                  THEN <<"Limit screen time or use energy-efficient devices">>
                  ELSE <<>>
      found    == energy \o moving \o air \o diet \o recycle \o buying \o screens
      some     == IF found = <<>> THEN <<"Maintain your sustainable lifestyle!">> ELSE found
  IN  some \o (IF GreaterThan(emissionScore, 1000)
               THEN <<"Your carbon footprint is high - take immediate action to reduce emissions!">>
               ELSE <<>>)

\* The status with the first bound counted in: a score of 50 is still Low.
statusOf_inclusive(s) ==
  IF LessThan(s, 51) THEN "Low" ELSE IF LessThan(s, 100) THEN "Moderate" ELSE "High"

\* POST, line 146: the status of a score.
statusOf(s) ==
  IF LessThan(s, 50) THEN "Low" ELSE IF LessThan(s, 100) THEN "Moderate" ELSE "High"

\* POST, lines 93-104, 111 and 116: airTravelMap and heatingEnergyMap, with their
\* defaults.
airTravelMap(v) ==
  CASE v = JText("never")     -> "never"
    [] v = JText("rarely")    -> "rarely"
    [] v = JText("sometimes") -> "frequently"
    [] v = JText("often")     -> "frequently"
    [] OTHER                  -> "rarely"

heatingEnergyMap(v) ==
  CASE v = JText("coal")        -> "coal"
    [] v = JText("wood")        -> "wood"
    [] v = JText("natural_gas") -> "natural gas"
    [] v = JText("electricity") -> "electricity"
    [] OTHER                    -> "electricity"

\* v.charAt(0).toUpperCase() + v.slice(1), for the values the form offers.
Capitalize(v) ==
  CASE v = "paper"   -> "Paper"
    [] v = "plastic" -> "Plastic"
    [] v = "stove"   -> "Stove"
    [] v = "oven"    -> "Oven"
    [] OTHER         -> v

\* POST, lines 124-129: the list capitalised, or the default for an empty one.
Listed(a, default) == IF a = <<>> THEN <<default>> ELSE [i \in DOMAIN a |-> Capitalize(a[i])]

\* POST, lines 106-130: the payload for the backend. The fields the handler only
\* copies and never reads again (Body Type, Sex, Waste Bag Size, the shower, the
\* social activity, the vehicle type and the grocery bill) are left out.
Payload(form) ==
  [Diet |-> Get(form, "diet"),
   HeatingEnergySource |-> heatingEnergyMap(Get(form, "heatingEnergy")),
   Transport |-> Get(form, "transport"),
   FrequencyOfTravelingByAir |-> airTravelMap(Get(form, "airTravelFrequency")),
   VehicleMonthlyDistanceKm |-> NumberJson(ToNumber(Get(form, "vehicleMonthlyKm"))),
   WasteBagWeeklyCount |-> NumberJson(ToNumber(Get(form, "wasteBagWeeklyCount"))),
   HowLongTvPcDailyHour |-> NumberJson(ToNumber(Get(form, "tvPcHoursDaily"))),
   HowManyNewClothesMonthly |-> NumberJson(ToNumber(Get(form, "newClothesMonthly"))),
   HowLongInternetDailyHour |-> NumberJson(ToNumber(Get(form, "internetHoursDaily"))),
   EnergyEfficiency |-> Get(form, "energyEfficiency"),
   Recycling |-> Listed(Get(form, "recycling").a, "Metal"),
   CookingWith |-> Listed(Get(form, "cookingWith").a, "Stove")]

\* A form as the page of the calculator posts it.
Form(heating, efficient, transport, km, air, diet, recycling, bags, clothes, tv, net) ==
  JObj([heatingEnergy |-> JText(heating), energyEfficiency |-> JText(efficient),
        transport |-> JText(transport), vehicleMonthlyKm |-> JNum(km),
        airTravelFrequency |-> JText(air), diet |-> JText(diet),
        recycling |-> JArr(recycling), cookingWith |-> JArr(<<"stove", "oven">>),
        wasteBagWeeklyCount |-> JNum(bags), newClothesMonthly |-> JNum(clothes),
        tvPcHoursDaily |-> JNum(tv), internetHoursDaily |-> JNum(net)])

\* A household that earns no advice, one that earns every advice, and four
\* between the two.
GreenForm ==
  Form("electricity", "yes", "public", 50, "never", "vegan", <<"paper">>, 1, 1, 2, 2)

HeavyForm == Form("coal", "no", "private", 500, "often", "omnivore", <<>>, 5, 8, 8, 10)

Forms ==
  {GreenForm, HeavyForm,
   Form("electricity", "no", "public", 200, "rarely", "vegetarian", <<"paper", "plastic">>,
        3, 5, 6, 8),
   Form("wood", "yes", "walk/bicycle", 0, "sometimes", "pescatarian", <<"plastic">>,
        4, 0, 0, 9),
   Form("natural_gas", "sometimes", "public", 201, "never", "omnivore", <<"paper">>,
        0, 6, 7, 0),
   Form("electricity", "yes", "private", 30, "rarely", "vegan", <<>>, 2, 2, 3, 3)}

\* A form without its lists: recycling and cookingWith are undefined.
ListlessForm ==
  JObj([heatingEnergy |-> JText("coal"), diet |-> JText("vegan"),
        transport |-> JText("public")])

\* The bodies the route receives: one request.json() cannot parse, the JSON null,
\* and the forms.
CarbonBody(readable, value) == [readable |-> readable, value |-> value]

CarbonBodies ==
  {CarbonBody(FALSE, JUndefined), CarbonBody(TRUE, JNull), CarbonBody(TRUE, ListlessForm)}
    \cup {CarbonBody(TRUE, f) : f \in Forms}

\* The scores the backend predicts.
Scores == {-5, 0, 49, 50, 51, 99, 100, 101, 1000, 1001}

\* The answers of the Flask backend: unreachable, a body that is not JSON, a
\* non-2xx answer (with an error, or with a score all the same), the JSON null,
\* an object without the score or with a null one, and the scores.
BackendReply(fail, ok, json, data) == [fail |-> fail, ok |-> ok, json |-> json, data |-> data]

Predicted(s) == JObj([predicted_carbon_emission |-> s])

BackendReplies ==
  {BackendReply(TRUE, FALSE, FALSE, JUndefined),
   BackendReply(FALSE, TRUE, FALSE, JUndefined),
   BackendReply(FALSE, FALSE, FALSE, JUndefined),
   BackendReply(FALSE, FALSE, TRUE, JObj([error |-> JText("Missing field: Diet")])),
   BackendReply(FALSE, FALSE, TRUE, Predicted(JNum(40))),
   BackendReply(FALSE, TRUE, TRUE, JNull),
   BackendReply(FALSE, TRUE, TRUE, JObj([message |-> JText("ok")])),
   BackendReply(FALSE, TRUE, TRUE, Predicted(JNull))}
    \cup {BackendReply(FALSE, TRUE, TRUE, Predicted(JNum(s))) : s \in Scores}

MsgCarbonFailed == "Failed to fetch prediction from backend"

\* The entries of carbonLog.
BackendCall(payload) == [op |-> "predict", payload |-> payload]

BackendAnswer(a) == [op |-> "predictReply", reply |-> a]

\* The catch block, lines 149-156.
CarbonFail ==
  /\ carbonPc' = "done"
  /\ carbonResponse' = [status |-> 500, body |-> [error |-> MsgCarbonFailed]]

\* Response.json({ emissionScore, status, recommendations }), lines 144-148:
\* JSON.stringify leaves out a key whose value is undefined.
CarbonSuccess(s, advice) ==
  [status |-> 200,
   body |-> IF s = JUndefined
            THEN [status |-> statusOf(s), recommendations |-> advice]
            ELSE [emissionScore |-> s, status |-> statusOf(s), recommendations |-> advice]]

\* POST, lines 80-137: the body is read, the payload built and posted to the
\* backend. request.json() throws on a body that is not JSON; reading a field of
\* null throws, and so does the length of a list the form does not hold.
CarbonPost(b) ==
  /\ carbonPc = "idle"
  /\ \/ /\ ~b.readable
        /\ CarbonFail
        /\ UNCHANGED <<formData, carbonLog>>
     \/ /\ b.readable
        /\ formData' = b.value
        /\ \/ /\ \/ b.value.k # "object"
                 \/ Get(b.value, "recycling").k # "array"
                 \/ Get(b.value, "cookingWith").k # "array"
              /\ CarbonFail
              /\ UNCHANGED carbonLog
           \/ /\ b.value.k = "object"
              /\ Get(b.value, "recycling").k = "array"
              /\ Get(b.value, "cookingWith").k = "array"
              /\ carbonLog' = <<BackendCall(Payload(b.value))>>
              /\ carbonPc' = "calling"
              /\ UNCHANGED carbonResponse

\* POST, lines 138-148: the backend answered. response.json() is read before the
\* status is looked at; a non-2xx status throws; reading the score of null throws.
CarbonReturn(a) ==
  /\ carbonPc = "calling"
  /\ carbonLog' = Append(carbonLog, BackendAnswer(a))
  /\ IF a.fail \/ ~a.json \/ ~a.ok \/ a.data.k # "object"
     THEN CarbonFail
     ELSE LET s == Get(a.data, "predicted_carbon_emission")
          IN  /\ carbonPc' = "done"
              /\ carbonResponse' = CarbonSuccess(s, generateRecommendations(formData, s))
  /\ UNCHANGED formData

NextCarbon ==
  \/ \E b \in CarbonBodies : CarbonPost(b) /\ UNCHANGED <<routeVars, pageVars>>
  \/ \E a \in BackendReplies : CarbonReturn(a) /\ UNCHANGED <<routeVars, pageVars>>

InitCarbon == Init /\ files0 = {} /\ dirExists

SpecCarbon == InitCarbon /\ [][NextCarbon]_vars

\* ------------------------------------------------------------------ claims

\* A coordinate that is a number, or a string holding a decimal integer numeral.
IsNumeral(s) ==
  LET t == trimEnd(trimStart(s))
      d == IF t # <<>> /\ Head(t) \in {"-", "+"} THEN Tail(t) ELSE t
  IN  d # <<>> /\ \A i \in 1..Len(d) : IsDigit(d[i])

ValidCoord(j) == j.k = "number" \/ (j.k = "string" /\ IsNumeral(j.s))

ValidBody(b) == b.json /\ ValidCoord(b.lat1) /\ ValidCoord(b.lon1)
                /\ ValidCoord(b.lat2) /\ ValidCoord(b.lon2)

\* The integer a valid coordinate denotes, read digit by digit from the right.
RECURSIVE DecimalValue(_)
DecimalValue(d) == IF d = <<>> THEN 0
                   ELSE 10 * DecimalValue(SubSeq(d, 1, Len(d) - 1)) + DigitVal(d[Len(d)])

CoordValue(j) ==
  IF j.k = "number" THEN j.n
  ELSE LET t == trimEnd(trimStart(j.s))
       IN  IF Head(t) = "-" THEN -DecimalValue(Tail(t))
           ELSE IF Head(t) = "+" THEN DecimalValue(Tail(t))
           ELSE DecimalValue(t)

Least(x, y) == IF x <= y THEN x ELSE y

Greatest(x, y) == IF x >= y THEN x ELSE y

\* The request has read its body (POST is past line 46).
Parsed(r) == pc[r] # "idle" /\ body[r].json

\* C1: for a request whose four coordinates are valid numbers, in any order, the
\* bounding box the route computed has minLon <= maxLon and minLat <= maxLat.
C1_BboxOrdered ==
  \A r \in Req :
    (Parsed(r) /\ ValidBody(body[r])) =>
      /\ \A i \in 1..4 : ~bbox[r][i].nan
      /\ bbox[r][1].v <= bbox[r][3].v
      /\ bbox[r][2].v <= bbox[r][4].v

\* A request whose point 1 lies north-west of point 2 (lat1 > lat2, lon1 < lon2):
\* neither point is the lower-left corner.
C1_Witness ==
  \E r \in Req :
    /\ Parsed(r) /\ ValidBody(body[r])
    /\ CoordValue(body[r].lat1) > CoordValue(body[r].lat2)
    /\ CoordValue(body[r].lon1) < CoordValue(body[r].lon2)
    /\ bbox[r][1].v < bbox[r][3].v /\ bbox[r][2].v < bbox[r][4].v

ExampleBody == MkBody(S10, S20, S5, S15)

\* The body with point 1 and point 2 exchanged.
Exchanged(b) == [b EXCEPT !.lat1 = b.lat2, !.lon1 = b.lon2, !.lat2 = b.lat1, !.lon2 = b.lon1]

\* C2: for valid numeric inputs the bounding box is [min(lon1,lon2), min(lat1,lat2),
\* max(lon1,lon2), max(lat1,lat2)]; (lat1=10, lon1=20, lat2=5, lon2=15) gives
\* [15, 5, 20, 10]; and the body with the two points exchanged gives the same box.
C2_BboxIsMinMax ==
  \A r \in Req :
    (Parsed(r) /\ ValidBody(body[r])) =>
      LET la1 == CoordValue(body[r].lat1)
          lo1 == CoordValue(body[r].lon1)
          la2 == CoordValue(body[r].lat2)
          lo2 == CoordValue(body[r].lon2)
      IN  /\ bbox[r] = <<Num(Least(lo1, lo2)), Num(Least(la1, la2)),
                         Num(Greatest(lo1, lo2)), Num(Greatest(la1, la2))>>
          /\ body[r] = ExampleBody => bbox[r] = <<Num(15), Num(5), Num(20), Num(10)>>
          /\ bbox[r] = computeBbox(Exchanged(body[r]))

\* The example request has been received and its box computed.
C2_Witness ==
  \E r \in Req :
    Parsed(r) /\ body[r] = ExampleBody /\ bbox[r] = <<Num(15), Num(5), Num(20), Num(10)>>

\* C3: a request in which a coordinate is missing or not parseable as a finite
\* number ends in an { error } response and makes no call to the imagery provider.
C3_InvalidInputRejected ==
  \A r \in Req :
    (pc[r] # "idle" /\ ~ValidBody(body[r])) =>
      /\ effects[r] = <<>>
      /\ pc[r] = "done" /\ response[r].kind = "error"

\* The token endpoint has answered request r; its answer is TokenReplyOf(r).
TokenAnswered(r) == Len(effects[r]) >= 2 /\ effects[r][2].op = "tokenReply"

TokenReplyOf(r) == effects[r][2].reply

\* An answer that holds no access_token: a non-2xx response, a body that is not
\* JSON, or JSON without the field (or with an empty one).
NoAccessToken(t) == ~t.fail /\ (~t.ok \/ ~t.json \/ ~t.has \/ t.access_token = "")

Middle(f) == SubSeq(f, Len(PREFIX) + 1, Len(f) - Len(PNG))

\* A decimal integer numeral: digits, after an optional minus sign.
IsIntegerNumeral(d) ==
  LET u == IF d # <<>> /\ Head(d) = "-" THEN Tail(d) ELSE d
  IN  u # <<>> /\ \A i \in 1..Len(u) : IsDigit(u[i])

IntegerValue(d) == IF Head(d) = "-" THEN -DecimalValue(Tail(d)) ELSE DecimalValue(d)

\* The name is true-color-<n>.png for an integer numeral <n>.
MatchesConvention(f) ==
  /\ startsWith(f, PREFIX) /\ endsWith(f, PNG) /\ Len(f) > Len(PREFIX) + Len(PNG)
  /\ IsIntegerNumeral(Middle(f))

ConventionNumber(f) == IntegerValue(Middle(f))

\* The name the naming convention gives a new file in a directory with these names.
ConventionNext(names) ==
  LET ns == {ConventionNumber(f) : f \in {g \in names : MatchesConvention(g)}}
  IN  Name(numberToString(Num(IF ns = {} THEN 1 ELSE MaxOf(ns) + 1)))

\* Request r lists the directory in this step (getNextFilename returns).
Allocates(r) == pc[r] = "fetched" /\ pc'[r] = "allocated"

\* Request r returns its success response in this step.
Succeeds(r) == response[r].kind = "none" /\ response'[r].kind = "success"

\* C5: the name allocated is true-color-<k>.png with k = 1 if the directory holds no
\* true-color-<n>.png and 1 + the largest such n otherwise; names that do not follow
\* the convention do not influence k.
C5_NextIndexFromConvention ==
  [][\A r \in Req : Allocates(r) => filename'[r] = ConventionNext(DOMAIN files)]_vars

\* The number in a name the route made.
SuffixOf(f) == IntegerValue(Middle(f))

\* C6: the names returned by successful requests are pairwise distinct, and the
\* number of a newly created file is not smaller than that of any file created
\* before it.
C6_NamesDistinctAndIncreasing ==
  [][\A r \in Req : Succeeds(r) =>
       /\ \A q \in Req \ {r} :
            response[q].kind = "success" => response[q].filename # response'[r].filename
       /\ \A g \in DOMAIN files \ files0 : SuffixOf(response'[r].filename) >= SuffixOf(g)]_vars

\* The file was created by a request that returned success.
Cached(f) == \E r \in Req : response[r].kind = "success" /\ response[r].filename = f

\* C7: a file created by a successful fetch is never overwritten and never deleted.
C7_CachedFileImmutable ==
  [][\A f \in DOMAIN files : Cached(f) => (f \in DOMAIN files' /\ files'[f] = files[f])]_vars

\* Request r writes its image in this step (writeFileSync returns).
Writes(r) == pc[r] = "allocated" /\ pc'[r] = "written"

\* C8: every successful request adds exactly one new file to the directory: the
\* write of a request that goes on to its success response makes the directory
\* one file larger.
C8_OneNewFilePerSuccess ==
  [][\A r \in Req : Writes(r) =>
       Cardinality(DOMAIN files') = Cardinality(DOMAIN files) + 1]_vars

\* Entry i of r's log changes the file system.
FsOp(r, i) == effects[r][i].op \in {"mkdir", "writeFile"}

\* Entry j of r's log is a 2xx answer of the process endpoint (the image bytes).
ImageReceived(r, j) ==
  /\ effects[r][j].op = "processReply"
  /\ ~effects[r][j].reply.fail /\ effects[r][j].reply.ok

\* C9: a request touches the file system only after it has received the image
\* bytes: a step of a request that is reading its body, waiting for the token or
\* waiting for the image (the step in which it fails there included) leaves the
\* directory, its files and their contents as they are.
C9_NoFileBeforeImage ==
  /\ [](\A r \in Req : \A i \in 1..Len(effects[r]) :
          FsOp(r, i) => \E j \in 1..(i - 1) : ImageReceived(r, j))
  /\ [][\A r \in Req :
          (pc[r] \in {"idle", "token", "process"} /\ pc'[r] # pc[r]) =>
            (files' = files /\ dirExists' = dirExists)]_vars

\* A request failed on the provider's answer to its process request, having written
\* nothing, in a directory that another request had already added a file to.
C9_Witness ==
  \E r \in Req :
    /\ pc[r] = "done" /\ response[r].kind = "error"
    /\ Len(effects[r]) = 4 /\ effects[r][4].op = "processReply" /\ ~effects[r][4].reply.ok
    /\ DOMAIN files # files0

\* C10: nothing in the allocation is atomic: a request that lists the directory
\* while another holds a name it has not written yet is allocated that same name,
\* and each of them writes that file and returns that name.
C10_SameNameWhenListingsOverlap ==
  /\ [][\A q \in Req : Allocates(q) =>
          \A p \in Req \ {q} :
            (pc[p] = "allocated" /\ filename[p] \notin DOMAIN files) =>
              filename'[q] = filename[p]]_vars
  /\ [][\A r \in Req : Succeeds(r) =>
          /\ response'[r].filename = filename[r]
          /\ response'[r].trueColorUrl = SENTINEL \o filename[r]
          /\ filename[r] \in DOMAIN files']_vars

\* Two requests have returned the same filename and the same URL, and the directory
\* gained one file.
C10_Witness ==
  \E p \in Req, q \in Req :
    /\ p # q
    /\ response[p].kind = "success" /\ response[q].kind = "success"
    /\ response[p].filename = response[q].filename
    /\ response[p].trueColorUrl = response[q].trueColorUrl
    /\ Cardinality(DOMAIN files) = Cardinality(files0) + 1

\* The process endpoint has answered request r; its answer is ProcessReplyOf(r).
ProcessAnswered(r) == Len(effects[r]) >= 4 /\ effects[r][4].op = "processReply"

ProcessReplyOf(r) == effects[r][4].reply

\* C11: when the answer to the process request is not a 2xx one, the request ends
\* in an { error } response of status 500 whose error is the text of the provider's
\* answer, character for character, and it touches no file.
C11_ProviderBodyPropagated ==
  \A r \in Req :
    (ProcessAnswered(r) /\ ~ProcessReplyOf(r).fail /\ ~ProcessReplyOf(r).ok) =>
      /\ pc[r] = "done"
      /\ response[r] = ErrorResponse(ProcessReplyOf(r).text)
      /\ Len(effects[r]) = 4

\* A request ended with the provider's non-empty body as its error, and another
\* with the provider's empty body.
C11_Witness ==
  \E r \in Req, q \in Req :
    /\ ProcessAnswered(r) /\ ~ProcessReplyOf(r).fail /\ ~ProcessReplyOf(r).ok
    /\ ProcessReplyOf(r).text # "" /\ response[r].kind = "error"
    /\ response[r].error = ProcessReplyOf(r).text
    /\ ProcessAnswered(q) /\ ~ProcessReplyOf(q).fail /\ ~ProcessReplyOf(q).ok
    /\ response[q] = ErrorResponse("")

\* The fields of the JSON object a response carries.
Fields(resp) == DOMAIN resp \ {"kind", "status"}

\* Request r ends in this step.
Ends(r) == pc[r] # "done" /\ pc'[r] = "done"

\* C12: a request has a response exactly when it has ended, and the response never
\* changes afterwards; it holds either trueColorUrl, filename and bbox (status 200)
\* or error alone, a string (status 500); and a request that ends anywhere but
\* after its write (its body unreadable, an outbound call failed or answered
\* without success, the directory or the file could not be written) ends in the
\* error shape.
C12_OneUniformResponse ==
  /\ [](\A r \in Req :
         /\ pc[r] = "done" <=> response[r].kind # "none"
         /\ response[r].kind \in {"none", "success", "error"}
         /\ response[r].kind = "success" =>
              Fields(response[r]) = {"trueColorUrl", "filename", "bbox"} /\ response[r].status = 200
         /\ response[r].kind = "error" =>
              /\ Fields(response[r]) = {"error"} /\ response[r].status = 500
              /\ response[r].error \in STRING)
  /\ [][\A r \in Req :
          /\ pc[r] = "done" => (pc'[r] = "done" /\ response'[r] = response[r])
          /\ (Ends(r) /\ pc[r] # "written") => response'[r].kind = "error"
          /\ (Ends(r) /\ pc[r] = "written") => response'[r].kind = "success"]_vars

\* One request ended in the success shape and another, whose write failed with the
\* disk full, in the error shape.
C12_Witness ==
  \E r \in Req, q \in Req :
    /\ response[r].kind = "success" /\ Fields(response[r]) = {"trueColorUrl", "filename", "bbox"}
    /\ response[q] = ErrorResponse(MsgNoSpace)
    /\ Len(effects[q]) = 5 /\ effects[q][5].op = "writeFile"

\* The image bytes the provider sent request r.
FetchedBytes(r) == ProcessReplyOf(r).bytes

\* C13: when a request returns its success response, trueColorUrl is "/sentinel/"
\* followed by filename, the cache directory holds a file of that name whose content
\* is the bytes the provider sent that request, and bbox is the box computed from
\* the request's coordinates.
C13_SuccessDescribesOwnFile ==
  [][\A r \in Req : Succeeds(r) =>
       /\ response'[r].trueColorUrl = SENTINEL \o response'[r].filename
       /\ response'[r].filename \in DOMAIN files'
       /\ files'[response'[r].filename] = FetchedBytes(r)
       /\ response'[r].bbox = computeBbox(body[r])]_vars

\* The classifier answers the analysis in flight in this step; AnswerNow is its answer.
RunAnswered == Len(predictLog) = 1 /\ Len(predictLog') = 2

AnswerNow == predictLog'[2].reply

VerdictFields == {"probability", "prediction", "label", "threshold"}

\* The value is { error: <message> } without any field of a verdict.
IsErrorResult(v) ==
  /\ v.k = "object"
  /\ "error" \in DOMAIN v.o
  /\ DOMAIN v.o \cap VerdictFields = {}

\* C14: when the classifier answers with a status that is not 2xx, or with a body
\* that is not JSON, the result stored is { error: <message> } and holds none of
\* probability, prediction, label and threshold.
C14_FailedInferenceStoresError ==
  [][(RunAnswered /\ ~AnswerNow.fail /\ (~AnswerNow.ok \/ ~AnswerNow.json)) =>
       IsErrorResult(result')]_vars

\* C15: when the classifier answers with a 2xx status and a JSON body, the result
\* stored is that body: probability, prediction, label, threshold and image_used
\* are the classifier's, and the result has an error field only if the body has one.
C15_VerdictPassedThrough ==
  [][(RunAnswered /\ ~AnswerNow.fail /\ AnswerNow.ok /\ AnswerNow.json) =>
       /\ result' = AnswerNow.data
       /\ \A f \in VerdictFields \cup {"image_used"} :
            Get(result', f) = Get(AnswerNow.data, f)
       /\ "error" \in DOMAIN result'.o <=> "error" \in DOMAIN AnswerNow.data.o]_vars

\* The classifier answered "No Wildfire" for a probability of 0.60 under its
\* threshold of 0.80, and that is the result stored for the image on the page.
C15_Witness ==
  /\ Len(predictLog) = 2 /\ predictLog[2].reply.ok /\ predictLog[2].reply.json
  /\ Truthy(trueColorUrl)
  /\ result = Verdict(trueColorUrl, 60, 0, "No Wildfire", 80)
  /\ ~isLoading

\* The result is an object with an error key.
HasErrorField(v) == v.k = "object" /\ "error" \in DOMAIN v.o

\* C16: whenever the result stored has an error field, the verdict card is not
\* rendered and the error card is; and in no state are both cards rendered.
C16_ErrorSupersedesVerdict ==
  /\ HasErrorField(result) => (~ShowsVerdictCard /\ ShowsErrorCard)
  /\ ~(ShowsVerdictCard /\ ShowsErrorCard)

\* A call to the classifier is issued in this step.
IssuesPredict == predictLog' # predictLog /\ predictLog'[Len(predictLog')].op = "predict"

\* C17: a call to the classifier is issued only by a step of runWildfireDetection,
\* taken with an image URL stored (trueColorUrl not null, nor empty), and the call
\* carries that URL as image_url; the step in which the response to a fetch arrives
\* issues none.
C17_InferenceOnlyOnRunAnalysis ==
  [][/\ IssuesPredict =>
          /\ runWildfireDetection
          /\ trueColorUrl # JNull /\ Truthy(trueColorUrl)
          /\ predictLog' = <<PredictCall(trueColorUrl)>>
     /\ FetchReturn => ~IssuesPredict]_vars

\* An analysis is in flight for the image on the page.
C17_Witness ==
  /\ isLoading /\ Len(predictLog) = 1
  /\ Truthy(trueColorUrl)
  /\ predictLog[1] = PredictCall(trueColorUrl)
  /\ fetchCall = 0

\* The name of the file an image URL of the route points to.
FileOf(url) == SubSeq(url.s, Len(SENTINEL) + 1, Len(url.s))

\* C18: no step of runWildfireDetection, neither its call nor the arrival of the
\* answer, whatever the answer is, changes trueColorUrl, the cache directory or a
\* file in it; and when the answer has arrived with the URL still stored, the
\* run-analysis button is rendered and enabled again.
C18_InferenceKeepsImage ==
  [][/\ (IssuesPredict \/ RunAnswered) =>
          /\ trueColorUrl' = trueColorUrl
          /\ files' = files /\ dirExists' = dirExists
     /\ (RunAnswered /\ Truthy(trueColorUrl)) => (ShowsRunButton' /\ ~isLoading')]_vars

\* The classifier could not be reached: the error is stored, the URL is still
\* there, its file is in the cache and the analysis can be run again.
C18_Witness ==
  /\ Len(predictLog) = 2 /\ predictLog[2].reply.fail
  /\ result = JObj([error |-> JText(MsgPredictFailed)])
  /\ Truthy(trueColorUrl) /\ trueColorUrl = predictLog[1].image_url
  /\ FileOf(trueColorUrl) \in DOMAIN files
  /\ ~isLoading

\* The fetch in flight fails in this step: fetch rejected, or the route answered
\* with its error response.
FetchFails == FetchThrow \/ (FetchReturn /\ response[fetchCall].kind = "error")

\* The analysis in flight fails in this step: the classifier could not be reached
\* or its answer is not JSON.
InferenceFails == RunAnswered /\ (AnswerNow.fail \/ ~AnswerNow.json)

\* C19: a fetch that fails leaves the page without a result and without an image
\* URL, while an analysis that fails leaves it with result.error set and the image
\* URL still stored: the states the two kinds of failure lead to are disjoint.
C19_FailuresDistinct ==
  [][/\ FetchFails => (result' = JNull /\ ~Truthy(trueColorUrl'))
     /\ InferenceFails => (Truthy(Get(result', "error")) /\ Truthy(trueColorUrl'))]_vars

\* The number of calls of one kind in a log.
Calls(log, op) == Cardinality({i \in DOMAIN log : log[i].op = op})

\* C20: a request of the route sends at most one token request and at most one
\* process request, and sends nothing more once it has ended; an analysis sends
\* one call to the classifier, and the arrival of its answer, a failure included,
\* ends the analysis without another call.
C20_NoRetry ==
  /\ [](\A r \in Req :
         Calls(effects[r], "token") <= 1 /\ Calls(effects[r], "process") <= 1)
  /\ [](Calls(predictLog, "predict") <= 1)
  /\ [][/\ \A r \in Req : pc[r] = "done" => effects'[r] = effects[r]
        /\ RunAnswered => (Calls(predictLog', "predict") = 1 /\ ~isLoading')]_vars

\* A request of the route ended on the refusal of the process endpoint after one
\* token request and one process request, and an analysis ended on an unreachable
\* classifier after one call.
C20_Witness ==
  /\ \E r \in Req :
       /\ pc[r] = "done" /\ response[r].kind = "error"
       /\ ProcessAnswered(r) /\ ~ProcessReplyOf(r).ok
       /\ Calls(effects[r], "token") = 1 /\ Calls(effects[r], "process") = 1
  /\ Len(predictLog) = 2 /\ predictLog[2].reply.fail
  /\ Calls(predictLog, "predict") = 1
  /\ ~isLoading

\* The locals of the handler for request r.
Locals(r) ==
  <<pc[r], body[r], bbox[r], access_token[r], trueColorBase64[r], filename[r],
    response[r], effects[r]>>

\* The process call request r sent, when it sent one: the entry after the token
\* reply.
SentProcess(r) == Len(effects[r]) >= 3 /\ effects[r][3].op = "process"

\* C21: the bearer in a request's process call is the access token returned by
\* that same request's token exchange, and a step of one request changes the
\* locals of no other request: requests share the cache directory only.
C21_TokenPerRequest ==
  /\ [](\A r \in Req :
         SentProcess(r) =>
           /\ TokenAnswered(r)
           /\ effects[r][3].bearer = TokenReplyOf(r).access_token)
  /\ [][\E r \in Req : \A q \in Req \ {r} : Locals(q)' = Locals(q)]_vars

\* Two requests have each sent a process call, each with the token of its own
\* exchange, and the two tokens differ.
C21_Witness ==
  \E r, q \in Req :
    /\ r # q
    /\ SentProcess(r) /\ SentProcess(q)
    /\ effects[r][3].bearer = TokenReplyOf(r).access_token
    /\ effects[q][3].bearer = TokenReplyOf(q).access_token
    /\ effects[r][3].bearer # effects[q][3].bearer

\* Request r ends in this step on an error of the file system: mkdirSync threw in
\* getNextFilename, or writeFileSync threw in downloadImage.
FsFails(r) == pc[r] \in {"fetched", "allocated"} /\ pc'[r] = "done"

\* The files that were in the directory when r arrived are there after the step,
\* with the content they had before it.
KeepsFilesBefore(r) ==
  \A f \in DOMAIN before[r] : f \in DOMAIN files' /\ files'[f] = files[f]

\* C22: when an error of the file system ends a request while it persists its
\* image, the request answers an error response, and every file that was in the
\* directory when the request arrived is still there, its content untouched by
\* the request: the name the request was given is none of theirs, and no step
\* removes a file.
C22_FsErrorKeepsFiles ==
  /\ [][\A r \in Req : FsFails(r) =>
          /\ response'[r].kind = "error"
          /\ response'[r].error \in {MsgMkdir, MsgOpen, MsgNoSpace}
          /\ KeepsFilesBefore(r)]_vars
  /\ [](\A r \in Req : filename[r] # None => filename[r] \notin DOMAIN before[r])
  /\ [][DOMAIN files \subseteq DOMAIN files']_vars

\* A request that arrived with files in the directory ended on a full disk: the
\* files that were there are as they were, next to the truncated file of the
\* request.
C22_Witness ==
  \E r \in Req :
    /\ pc[r] = "done" /\ response[r].kind = "error" /\ response[r].error = MsgNoSpace
    /\ \E f \in files0 : startsWith(f, PREFIX)
    /\ \A f \in files0 : f \in DOMAIN files /\ files[f] = OldBytes
    /\ \E i \in DOMAIN effects[r] :
         /\ effects[r][i].op = "writeFile"
         /\ effects[r][i].name \notin files0
         /\ files[effects[r][i].name] = <<>>

\* Request r returned the URL url in a success response.
ReturnedUrl(r, url) ==
  response[r].kind = "success" /\ url = JStr(response[r].trueColorUrl)

\* Request q wrote these bytes under this name (writeFileSync opened the file).
WroteFile(q, name, bytes) ==
  \E i \in DOMAIN effects[q] : effects[q][i] = WriteOp(name, bytes)

\* C23: the URL sent to the classifier is one that a request of the route
\* returned, and it names a file of the cache directory; nothing more ties the
\* file to that request: when fetches overlap, the file may hold what another
\* request wrote (the state of C23_Witness is reached).
C23_InferenceUrlFromSomeFetch ==
  \A i \in DOMAIN predictLog :
    predictLog[i].op = "predict" =>
      /\ \E r \in Req : ReturnedUrl(r, predictLog[i].image_url)
      /\ FileOf(predictLog[i].image_url) \in DOMAIN files

\* The classifier was sent the URL request r returned, and the file of that URL
\* holds an image that is not the one r fetched: it is the image of another
\* request q, which wrote it there.
C23_Witness ==
  \E r, q \in Req :
    /\ r # q
    /\ Len(predictLog) >= 1 /\ predictLog[1].op = "predict"
    /\ predictLog[1].image_url = trueColorUrl
    /\ ReturnedUrl(r, trueColorUrl)
    /\ LET f == FileOf(trueColorUrl)
       IN  /\ files[f] # FetchedBytes(r)
           /\ files[f] = FetchedBytes(q)
           /\ files[f] # <<>>
           /\ WroteFile(q, f, files[f])

\* The log of request r gets an entry of the kind op in this step.
Answered(r, op) ==
  /\ Len(effects'[r]) > Len(effects[r])
  /\ effects'[r][Len(effects[r]) + 1].op = op

\* C24: no outbound call is given up on. A request of the route leaves its wait
\* for the token endpoint or for the process endpoint only in the step in which
\* that endpoint answers or fails; fetchingImage falls only in the step in which
\* the call to the route returns or is rejected, and isLoading only in the step
\* in which the classifier answers or fails: without the answer the operation
\* stays in flight and its flag stays true. When every call is answered or fails
\* in the end, every request of the route ends and both flags fall.
C24_NoTimeoutButCompletion ==
  /\ [][/\ \A r \in Req :
             /\ (pc[r] = "token" /\ pc'[r] # "token") => Answered(r, "tokenReply")
             /\ (pc[r] = "process" /\ pc'[r] # "process") => Answered(r, "processReply")
        /\ (fetchingImage /\ ~fetchingImage') =>
             /\ fetchCall # 0
             /\ pc[fetchCall] = "done" \/ alerted' = MsgFetchFailed
        /\ (isLoading /\ ~isLoading') => RunAnswered]_vars
  /\ \A r \in Req : (pc[r] # "idle") ~> (pc[r] = "done")
  /\ fetchingImage ~> ~fetchingImage
  /\ isLoading ~> ~isLoading

\* A fetch waits for the token endpoint and an analysis for the classifier, both
\* flags set.
C24_Witness ==
  /\ fetchingImage /\ fetchCall # 0 /\ pc[fetchCall] = "token"
  /\ isLoading /\ PredictPending

\* The positions of a handler in the order of the steps of POST: the body read
\* and the box normalised (to "token"), the token exchanged (to "process"), the
\* image fetched (to "fetched"), the directory listed and the name allocated (to
\* "allocated"), the file written (to "written"), the response returned ("done").
StepOrder == <<"idle", "token", "process", "fetched", "allocated", "written", "done">>

Rank(p) == CHOOSE i \in DOMAIN StepOrder : StepOrder[i] = p

\* The kinds of the entries of r's log, in order.
Ops(r) == [i \in DOMAIN effects[r] |-> effects[r][i].op]

IsPrefix(s, t) == Len(s) <= Len(t) /\ s = SubSeq(t, 1, Len(s))

\* The token endpoint gave r an access token; the process endpoint gave r an image.
TokenGranted(r) ==
  /\ TokenAnswered(r)
  /\ ~TokenReplyOf(r).fail /\ TokenReplyOf(r).json
  /\ TokenReplyOf(r).has /\ TokenReplyOf(r).access_token # ""

ImageFetched(r) == ProcessAnswered(r) /\ ~ProcessReplyOf(r).fail /\ ProcessReplyOf(r).ok

\* C25: within one request the steps are taken in the order normalise, token
\* exchange, process request, listing and allocation, write, response: a handler
\* moves to the next position or ends, its log is a prefix of token call, token
\* reply, process call, process reply, (mkdir,) write; and a step is started
\* only after every earlier one succeeded: the token call after the body was
\* read and the box computed, the process call after a token was granted, the
\* listing after an image was received, the write after a name was allocated, and
\* the success response after the write.
C25_StepsInOrder ==
  /\ [][\A r \in Req :
          /\ pc'[r] # pc[r] => (pc'[r] = "done" \/ Rank(pc'[r]) = Rank(pc[r]) + 1)
          /\ pc'[r] = "token" /\ pc[r] # "token" => bbox'[r] = computeBbox(body'[r])
          /\ pc[r] # "idle" => (bbox'[r] = bbox[r] /\ body'[r] = body[r])]_vars
  /\ [](\A r \in Req :
         /\ \/ IsPrefix(Ops(r), <<"token", "tokenReply", "process", "processReply", "writeFile">>)
            \/ IsPrefix(Ops(r), <<"token", "tokenReply", "process", "processReply", "mkdir",
                                  "writeFile">>)
         /\ Len(effects[r]) >= 1 => (body[r].json /\ bbox[r] # None)
         /\ Len(effects[r]) >= 3 => (TokenGranted(r) /\ effects[r][3].bbox = bbox[r])
         /\ (Len(effects[r]) >= 5 \/ pc[r] \in {"fetched", "allocated", "written"}) =>
              ImageFetched(r)
         /\ pc[r] = "allocated" => filename[r] # None
         /\ effects[r] # <<>> /\ effects[r][Len(effects[r])].op = "writeFile" =>
              \/ pc[r] = "written"
              \/ pc[r] = "done"
         /\ response[r].kind = "success" =>
              /\ Len(effects[r]) >= 5
              /\ effects[r][Len(effects[r])] = WriteOp(response[r].filename, FetchedBytes(r)))

\* One request went through every step to its success response, the directory
\* made on the way, and another one stopped at the token exchange with nothing
\* after it.
C25_Witness ==
  \E r, q \in Req :
    /\ pc[r] = "done" /\ response[r].kind = "success"
    /\ Ops(r) = <<"token", "tokenReply", "process", "processReply", "mkdir", "writeFile">>
    /\ pc[q] = "done" /\ response[q].kind = "error"
    /\ Ops(q) = <<"token", "tokenReply">>

\* One of the four input fields is empty.
AnyFieldEmpty == lat1 = <<>> \/ lon1 = <<>> \/ lat2 = <<>> \/ lon2 = <<>>

\* C26: with one of the four fields empty, fetchSentinelImage sends no request
\* (no handler of the route starts, no call is logged, no call of the page is in
\* flight afterwards that was not before) and leaves trueColorUrl, result and
\* fetchingImage as they were; it alerts "Please enter all coordinates!".
C26_EmptyFieldNoRequest ==
  [][(fetchSentinelImage /\ AnyFieldEmpty) =>
       /\ pc' = pc /\ effects' = effects /\ body' = body
       /\ fetchCall' = fetchCall /\ predictLog' = predictLog
       /\ trueColorUrl' = trueColorUrl
       /\ result' = result
       /\ fetchingImage' = fetchingImage
       /\ alerted' = MsgCoordinates]_vars

\* The page shows an image and its verdict, the first field was cleared and the
\* fetch button clicked: the alert was shown, the image and the verdict are still
\* there, and no request is in flight.
C26_Witness ==
  /\ lat1 = <<>> /\ lon1 # <<>> /\ lat2 # <<>> /\ lon2 # <<>>
  /\ alerted = MsgCoordinates
  /\ Truthy(trueColorUrl) /\ ShowsVerdictCard
  /\ ~fetchingImage /\ fetchCall = 0
  /\ \A r \in Req : pc[r] \in {"idle", "done"}

\* C27: whenever the verdict card is rendered (a result without an error),
\* trueColorUrl is not null and is the image_url of the call to the classifier
\* whose answer is the result shown.
C27_VerdictMatchesImage ==
  ShowsVerdictCard =>
    /\ Truthy(trueColorUrl)
    /\ Len(predictLog) = 2
    /\ predictLog[1].image_url = trueColorUrl

\* A fetch is started in this step: the request is handed to the route.
FetchStarts == fetchCall = 0 /\ fetchCall' # 0

\* No URL is stored: null, or the undefined that setTrueColorUrl is given when
\* the body it reads has no trueColorUrl (x == null holds of both).
Nullish(v) == v \in {JNull, JUndefined}

RouteStarts == \E r \in Req : pc[r] = "idle" /\ pc'[r] # "idle"

\* The fetch of the page settles in this step: the response of the route arrives
\* (a success or an error response), or fetch is rejected.
FetchSettles == fetchCall # 0 /\ fetchCall' = 0

\* C29: fetchingImage is true exactly while a call of the page to the route is
\* pending, and isLoading exactly while a call to the classifier is; each flag is
\* reset in the step in which its call settles, be it by a success, by an error
\* response or by an exception; and a call of either kind is started only with
\* its flag false (the button is disabled otherwise), so that no second call of
\* the kind is started while one is pending.
C29_FlagsFollowRequests ==
  /\ [](fetchingImage <=> fetchCall # 0)
  /\ [](isLoading <=> PredictPending)
  /\ [](Calls(predictLog, "predict") <= 1)
  /\ [][/\ RouteStarts => (~fetchingImage /\ fetchCall = 0 /\ fetchingImage')
        /\ IssuesPredict => (~isLoading /\ ~PredictPending /\ isLoading')
        /\ (FetchReturn \/ FetchThrow) <=> FetchSettles
        /\ FetchSettles => ~fetchingImage'
        /\ RunAnswered => ~isLoading']_vars

\* Each kind of call has settled in each way and both flags are down: a fetch
\* answered with an image, an analysis ended by an exception, a later fetch
\* answered with an error.
C29_Witness ==
  /\ ~fetchingImage /\ fetchCall = 0
  /\ ~isLoading /\ Len(predictLog) = 2 /\ predictLog[2].reply.fail
  /\ \E r, q \in Req :
       /\ pc[r] = "done" /\ response[r].kind = "success"
       /\ pc[q] = "done" /\ response[q].kind = "error"
  /\ alerted \notin {"", MsgCoordinates, MsgFetchFailed}

\* The backend answered the carbon route; its answer; the score in it.
BackendAnswered == Len(carbonLog) = 2

BackendReplyOf == carbonLog[2].reply

\* The request of the carbon route failed: its body could not be read or did not
\* hold the form, the backend could not be reached, or its answer was not JSON
\* or not a 2xx one.
CarbonFailed ==
  \/ ~BackendAnswered
  \/ BackendReplyOf.fail \/ ~BackendReplyOf.json \/ ~BackendReplyOf.ok

StatusFor(s) == IF s < 50 THEN "Low" ELSE IF s >= 100 THEN "High" ELSE "Moderate"

\* C30: the carbon route answers a predicted score s with exactly one status,
\* Low for s < 50, Moderate for 50 <= s < 100 and High for s >= 100, next to the
\* score and the recommendations; and every failure (a request that cannot be
\* read, a backend that cannot be reached, an answer that is not a 2xx one or
\* not JSON) is answered with status 500 and the body { error: "Failed to fetch
\* prediction from backend" }, which holds no score, status or recommendations.
C30_StatusBucketsUniformFailure ==
  carbonPc = "done" =>
    /\ CarbonFailed =>
         /\ carbonResponse = [status |-> 500, body |-> [error |-> MsgCarbonFailed]]
         /\ DOMAIN carbonResponse.body = {"error"}
    /\ (~CarbonFailed /\ Get(BackendReplyOf.data, "predicted_carbon_emission").k = "number") =>
         LET s == Get(BackendReplyOf.data, "predicted_carbon_emission").n
         IN  /\ carbonResponse.status = 200
             /\ DOMAIN carbonResponse.body = {"emissionScore", "status", "recommendations"}
             /\ carbonResponse.body.emissionScore = JNum(s)
             /\ carbonResponse.body.status = StatusFor(s)
             /\ Cardinality({t \in {"Low", "Moderate", "High"} :
                               carbonResponse.body.status = t}) = 1
             /\ carbonResponse.body.recommendations # <<>>
    /\ "error" \in DOMAIN carbonResponse.body => DOMAIN carbonResponse.body = {"error"}

\* The backend predicted 50 for the household that earns every advice: the
\* status is Moderate, with the score and the advice.
C30_Witness ==
  /\ carbonPc = "done" /\ formData = HeavyForm
  /\ BackendAnswered /\ BackendReplyOf.data = Predicted(JNum(50))
  /\ carbonResponse.body.status = "Moderate"
  /\ carbonResponse.body.emissionScore = JNum(50)
  /\ Len(carbonResponse.body.recommendations) = 7

====
